---- MODULE Spec2Model ----
(***************************************************************************)
(* A model of the DFA dynamic-investment strategy:                         *)
(*   dfa_strategy.py         DFAStrategyLogic      (single asset)          *)
(*   multi_asset_strategy.py MultiAssetDFAStrategy (several symbols)       *)
(*   live_trading.py         DFALiveTrading        (the daily tick loop)   *)
(*                                                                         *)
(* Numbers.  Python floats that hold money, prices and share counts are    *)
(* modelled by exact rationals <<n, d>> (d > 0, lowest terms).  Two        *)
(* effects of binary floating point are kept, because the code's results   *)
(* depend on them:                                                         *)
(*  - round(x, 4) rounds the double x.  A decimal with a 5 in the fifth    *)
(*    place is never a double, so at such a tie the direction is decided   *)
(*    by the representation error of x: both directions are modelled.      *)
(*  - total_shares is a running float sum of 4-decimal values.  Its        *)
(*    double can differ from the double nearest its decimal value by a     *)
(*    rounding error.  The field fp_err of a state says what is known of   *)
(*    it: "exact" (no error), "inexact" (a rounding error of either sign   *)
(*    may have been made) and, when the decimal value is 0, "above" or     *)
(*    "below": the float total_shares (and the float total_invested) is    *)
(*    then a number of that sign and of magnitude ~1e-16.                  *)
(*                                                                         *)
(* Dates.  A date value is <<kind, day>>, kind one of "none" (None),       *)
(* "date" (datetime.date) and "datetime" (datetime.datetime; the time of   *)
(* day is not modelled), day a day number.  A stored JSON value of a date  *)
(* field is <<kind, day>> with kind one of "str-date" ('YYYY-MM-DD'),      *)
(* "str-datetime" ('YYYY-MM-DDTHH:MM:SS'), "str-bad" (a string that is no  *)
(* ISO date), "str-empty" (''), "number", "null" and "absent" (no key).    *)
(***************************************************************************)
EXTENDS Integers, Sequences, FiniteSets, TLC

\* ---------------------------------------------------------------- rationals

Abs(x) == IF x < 0 THEN -x ELSE x

RECURSIVE GCD(_, _)
GCD(a, b) == IF b = 0 THEN a ELSE GCD(b, a % b)

\* n/d in lowest terms, d # 0
Rat(n, d) ==
    LET g == GCD(Abs(n), Abs(d))
        s == IF d < 0 THEN -1 ELSE 1
    IN  <<(s * n) \div g, (s * d) \div g>>

R(n) == <<n, 1>>
Zero == <<0, 1>>

RNeg(a) == <<-a[1], a[2]>>

RAdd(a, b) ==
    LET g == GCD(a[2], b[2])
    IN  Rat(a[1] * (b[2] \div g) + b[1] * (a[2] \div g), (a[2] \div g) * b[2])

RSub(a, b) == RAdd(a, RNeg(b))

RMul(a, b) ==
    IF a[1] = 0 \/ b[1] = 0 THEN Zero
    ELSE LET g1 == GCD(Abs(a[1]), b[2])
             g2 == GCD(Abs(b[1]), a[2])
         IN  <<(a[1] \div g1) * (b[1] \div g2), (a[2] \div g2) * (b[2] \div g1)>>

\* a / b, b # 0
RDiv(a, b) ==
    RMul(a, IF b[1] < 0 THEN <<-b[2], -b[1]>> ELSE <<b[2], b[1]>>)

RLess(a, b) ==
    LET g == GCD(a[2], b[2])
    IN  a[1] * (b[2] \div g) < b[1] * (a[2] \div g)

RLeq(a, b) == ~RLess(b, a)

\* the two integers nearest to q * 10^4 are Floor and Floor + 1
Scaled4(q) == RMul(q, R(10000))
Floor4(q) == Scaled4(q)[1] \div Scaled4(q)[2]
Twice4(q) == 2 * (Scaled4(q)[1] % Scaled4(q)[2])

\* q lies exactly halfway between two 4-decimal values
IsTie4(q) == Twice4(q) = Scaled4(q)[2]

\* Python round(q, 4); up decides the direction at a tie
Round4(q, up) ==
    LET k == IF Twice4(q) > Scaled4(q)[2] \/ (IsTie4(q) /\ up)
             THEN Floor4(q) + 1 ELSE Floor4(q)
    IN  Rat(k, 10000)

\* the tie directions round(q, 4) can take
Ties(q) == IF IsTie4(q) THEN BOOLEAN ELSE {FALSE}

\* -------------------------------------------------------------------- dates

None == <<"none", 0>>
Date(d) == <<"date", d>>
DateTime(d) == <<"datetime", d>>

\* date.isoformat() / datetime.isoformat()
isoformat(x) == IF x[1] = "date" THEN <<"str-date", x[2]>> ELSE <<"str-datetime", x[2]>>

\* datetime.fromisoformat(s): a datetime, or ValueError / TypeError
CanParse(s) == s[1] \in {"str-date", "str-datetime"}
fromisoformat(s) == DateTime(s[2])

\* datetime.date()
ToDate(x) == Date(x[2])

\* Python truthiness of a stored JSON value: None, '' and a missing key
\* (dict.get gives None) are false
Truthy(s) == s[1] \notin {"null", "absent", "str-empty"}

\* a - b is defined between two dates or between two datetimes only
CanSubtract(a, b) == a[1] = b[1] /\ a[1] \in {"date", "datetime"}
DaysBetween(a, b) == a[2] - b[2]

\* an optional number: available_cash
NoCash == <<"none", Zero>>
Cash(x) == <<"some", x>>

\* ------------------------------------------------- binary floating point

\* q is a double: its denominator is a power of two (it divides 10^4 here)
IsDyadic(q) == q[2] \in {1, 2, 4, 8, 16}

\* sign of the float whose decimal value is q and whose rounding error is err
FloatSign(q, err) ==
    IF q[1] > 0 THEN 1 ELSE IF q[1] < 0 THEN -1
    ELSE IF err = "above" THEN 1 ELSE IF err = "below" THEN -1 ELSE 0

\* the error of the float sum a + b (b > 0), a carrying err: 0.0 + b, b + b
\* and a sum of doubles are exact, any other sum may round
AddErr(a, err, b) ==
    IF err = "exact" /\ (a[1] = 0 \/ a = b \/ (IsDyadic(a) /\ IsDyadic(b))) THEN "exact"
    ELSE "inexact"

\* the errors the float difference a - b can carry, a carrying err and b
\* being round(a * ratio, 4); tie_up: b was rounded up at a tie, which an
\* inexact a does only when it lies above its decimal value.  A difference
\* of decimal value 0 is the error of a itself (the subtraction of two
\* nearby doubles is exact)
SubErrs(a, err, b, tie_up) ==
    IF a # b
    THEN {IF err = "exact" /\ IsDyadic(a) /\ IsDyadic(b) THEN "exact" ELSE "inexact"}
    ELSE IF err = "exact" THEN {"exact"}
    ELSE IF tie_up THEN {"exact", "above"}
    ELSE {"exact", "above", "below"}

\* ------------------------------------------- SymbolState (both variants)

\* the state fields set by __init__
EmptyState ==
    [investment_count |-> 0,
     last_investment_date |-> None,
     last_profit_taking_date |-> None,
     total_invested |-> Zero,
     total_shares |-> Zero,
     fp_err |-> "exact",
     total_sell_amount |-> Zero,
     investment_history |-> <<>>,
     profit_history |-> <<>>]

StateFields == DOMAIN EmptyState

\* (price - ma) / ma * 100, and 0 when ma = 0 (the same in both classes)
calculate_deviation(current_price, ma120_value) ==
    IF ma120_value = Zero THEN Zero
    ELSE RMul(RDiv(RSub(current_price, ma120_value), ma120_value), R(100))

\* should_invest_today of both classes: "yes", "no", or "TypeError" when a
\* date and a datetime are subtracted
should_invest_today(state, investment_interval, current_date) ==
    IF state.last_investment_date = None THEN "yes"
    ELSE IF ~CanSubtract(current_date, state.last_investment_date) THEN "TypeError"
    ELSE IF DaysBetween(current_date, state.last_investment_date) >= investment_interval
         THEN "yes" ELSE "no"

\* should_take_profit without the target
should_take_profit_any_return(state, cfg, current_date, current_return) ==
    IF state.last_profit_taking_date = None THEN "yes"
    ELSE IF ~CanSubtract(current_date, state.last_profit_taking_date) THEN "TypeError"
    ELSE IF DaysBetween(current_date, state.last_profit_taking_date) < cfg.profit_taking_cooldown
         THEN "no" ELSE "yes"

\* should_take_profit without the cooldown
should_take_profit_no_cooldown(state, cfg, current_date, current_return) ==
    IF RLess(current_return, cfg.target_return) THEN "no" ELSE "yes"

\* should_take_profit of both classes
should_take_profit(state, cfg, current_date, current_return) ==
    IF RLess(current_return, cfg.target_return) THEN "no"
    ELSE IF state.last_profit_taking_date = None THEN "yes"
    ELSE IF ~CanSubtract(current_date, state.last_profit_taking_date) THEN "TypeError"
    ELSE IF DaysBetween(current_date, state.last_profit_taking_date) < cfg.profit_taking_cooldown
         THEN "no" ELSE "yes"

Skip(state, reason) == [state |-> state, ret |-> [action |-> "skip", reason |-> reason]]
Raise(state, error) == [state |-> state, ret |-> [action |-> "raise", reason |-> error]]

\* InvestWith recording the amount asked for, not size * price
InvestWith_unrounded(state, investment_amount, deviation, multiplier, current_price, ma120_value, current_date, up, err) ==
    LET size == Round4(RDiv(investment_amount, current_price), up)
        investment_info ==
            [date |-> isoformat(current_date), price |-> current_price,
             ma120 |-> ma120_value, deviation |-> deviation,
             multiplier |-> multiplier, amount |-> investment_amount,
             shares |-> size]
    IN  IF RLeq(size, Zero) THEN Skip(state, "size")
        ELSE [state |->
                [state EXCEPT
                    !.total_invested = RAdd(@, investment_amount),
                    !.total_shares = RAdd(@, size),
                    !.fp_err = err,
                    !.investment_count = @ + 1,
                    !.last_investment_date = current_date,
                    !.investment_history = Append(@, investment_info)],
              ret |->
                [action |-> "buy", size |-> size, amount |-> investment_amount,
                 price |-> current_price, deviation |-> deviation,
                 multiplier |-> multiplier]]

\* execute_investment of both classes from `if investment_amount <= 0` on,
\* for one direction up of round() at a tie and one rounding error err of the
\* new float total_shares: the size, the accumulation into the state and the
\* returned action
InvestWith(state, investment_amount, deviation, multiplier, current_price, ma120_value, current_date, up, err) ==
    LET size == Round4(RDiv(investment_amount, current_price), up)
        actual_invested == RMul(size, current_price)
        investment_info ==
            [date |-> isoformat(current_date), price |-> current_price,
             ma120 |-> ma120_value, deviation |-> deviation,
             multiplier |-> multiplier, amount |-> actual_invested,
             shares |-> size]
    IN  IF RLeq(size, Zero) THEN Skip(state, "size")
        ELSE [state |->
                [state EXCEPT
                    !.total_invested = RAdd(@, actual_invested),
                    !.total_shares = RAdd(@, size),
                    !.fp_err = err,
                    !.investment_count = @ + 1,
                    !.last_investment_date = current_date,
                    !.investment_history = Append(@, investment_info)],
              ret |->
                [action |-> "buy", size |-> size, amount |-> actual_invested,
                 price |-> current_price, deviation |-> deviation,
                 multiplier |-> multiplier]]

\* Invest with last_investment_date assigned before the amount is looked at
Invest_dated(state, investment_amount, deviation, multiplier, current_price, ma120_value, current_date) ==
    LET dated == [state EXCEPT !.last_investment_date = current_date]
    IN  IF RLeq(investment_amount, Zero) THEN {Skip(dated, "deviation")}
        ELSE IF current_price = Zero THEN {Raise(dated, "ZeroDivisionError")}
        ELSE LET q == RDiv(investment_amount, current_price)
             IN  {InvestWith(dated, investment_amount, deviation, multiplier,
                             current_price, ma120_value, current_date, up,
                             AddErr(state.total_shares, state.fp_err, Round4(q, up))) :
                    up \in Ties(q)}

\* Invest behind the interval gate: no purchase on the date of the last one
Invest_gated(state, investment_amount, deviation, multiplier, current_price, ma120_value, current_date) ==
    IF state.last_investment_date = current_date THEN {Skip(state, "interval")}
    ELSE IF RLeq(investment_amount, Zero) THEN {Skip(state, "deviation")}
    ELSE IF current_price = Zero THEN {Raise(state, "ZeroDivisionError")}
    ELSE LET q == RDiv(investment_amount, current_price)
         IN  {InvestWith(state, investment_amount, deviation, multiplier,
                         current_price, ma120_value, current_date, up,
                         AddErr(state.total_shares, state.fp_err, Round4(q, up))) :
                up \in Ties(q)}

\* the results execute_investment can have from `if investment_amount <= 0`
\* on
Invest(state, investment_amount, deviation, multiplier, current_price, ma120_value, current_date) ==
    IF RLeq(investment_amount, Zero) THEN {Skip(state, "deviation")}
    ELSE IF current_price = Zero THEN {Raise(state, "ZeroDivisionError")}
    ELSE LET q == RDiv(investment_amount, current_price)
         IN  {InvestWith(state, investment_amount, deviation, multiplier,
                         current_price, ma120_value, current_date, up,
                         AddErr(state.total_shares, state.fp_err, Round4(q, up))) :
                up \in Ties(q)}

\* the float total_shares is a positive rounding residue of a decimal 0
IsResidue(state) == state.total_shares = Zero /\ state.fp_err = "above"

\* of a residue the return is the quotient of two rounding errors: any number
ResidueReturns == {Zero, R(1000)}

\* current_return as execute_profit_taking computes it
CurrentReturn(state, current_price, residue_return) ==
    IF IsResidue(state) THEN residue_return
    ELSE IF RLess(Zero, state.total_invested)
         THEN RMul(RDiv(RSub(RMul(state.total_shares, current_price),
                             state.total_invested),
                        state.total_invested), R(100))
         ELSE Zero

\* the whole cost basis taken as the cost of any sale
CostOfSold_all(state, sell_shares) == state.total_invested

\* the cost basis a sale of sell_shares removes: (sell_shares / total_shares)
\* * total_invested
CostOfSold(state, sell_shares) ==
    RMul(RDiv(sell_shares, state.total_shares), state.total_invested)

\* execute_profit_taking of both classes, for one direction up of round() at
\* a tie, one rounding error err of the new float total_shares and one
\* return of a residue
ProfitTakingWith(state, cfg, current_price, current_date, up, err, residue_return) ==
    LET current_return == CurrentReturn(state, current_price, residue_return)
        gate == should_take_profit(state, cfg, current_date, current_return)
        sell_shares == Round4(RMul(state.total_shares, cfg.sell_ratio), up)
        sell_amount == RMul(sell_shares, current_price)
        cost_of_sold == CostOfSold(state, sell_shares)
        profit == RSub(sell_amount, cost_of_sold)
        profit_info ==
            [date |-> isoformat(current_date), price |-> current_price,
             return_percent |-> current_return, shares_sold |-> sell_shares,
             amount_received |-> sell_amount, cost_of_sold |-> cost_of_sold,
             profit |-> profit]
    IN  IF FloatSign(state.total_shares, state.fp_err) <= 0
        THEN Skip(state, "no position")
        ELSE IF gate = "TypeError" THEN Raise(state, "TypeError")
        ELSE IF gate = "no" THEN Skip(state, "return")
        ELSE IF RLeq(sell_shares, Zero) THEN Skip(state, "size")
        ELSE [state |->
                [state EXCEPT
                    !.total_shares = RSub(@, sell_shares),
                    !.fp_err = err,
                    !.total_invested = RSub(@, cost_of_sold),
                    !.total_sell_amount = RAdd(@, sell_amount),
                    !.last_profit_taking_date = current_date,
                    !.profit_history = Append(@, profit_info)],
              ret |->
                [action |-> "sell", size |-> sell_shares, amount |-> sell_amount,
                 price |-> current_price, current_return |-> current_return,
                 profit |-> profit]]

\* the results execute_profit_taking can have
ProfitTaking(state, cfg, current_price, current_date) ==
    LET q == RMul(state.total_shares, cfg.sell_ratio)
    IN  UNION {{ProfitTakingWith(state, cfg, current_price, current_date, up, err, rr) :
                    err \in SubErrs(state.total_shares, state.fp_err, Round4(q, up), up),
                    rr \in IF IsResidue(state) THEN ResidueReturns ELSE {Zero}} :
               up \in Ties(q)}

\* ---------------------------------------------------- DFAStrategyLogic

\* DFAStrategyLogic.__init__ with its default arguments, but sell_ratio
DFAStrategyLogic(sell_ratio) ==
    [base_cash |-> R(70),
     investment_interval |-> 14,
     target_return |-> R(75),
     sell_ratio |-> sell_ratio,
     profit_taking_cooldown |-> 30] @@ EmptyState

\* get_investment_multiplier with the steps open at their upper ends
DFA_get_investment_multiplier_strict(deviation) ==
    IF RLess(deviation, R(-20)) THEN Rat(22, 10)
    ELSE IF RLess(deviation, R(-10)) THEN Rat(18, 10)
    ELSE IF RLess(deviation, R(0)) THEN Rat(14, 10)
    ELSE IF RLess(deviation, R(5)) THEN R(1)
    ELSE IF RLess(deviation, R(15)) THEN Rat(5, 10)
    ELSE IF RLess(deviation, R(25)) THEN Rat(2, 10)
    ELSE Zero

\* DFAStrategyLogic.get_investment_multiplier
DFA_get_investment_multiplier(deviation) ==
    IF RLeq(deviation, R(-20)) THEN Rat(22, 10)
    ELSE IF RLeq(deviation, R(-10)) THEN Rat(18, 10)
    ELSE IF RLeq(deviation, R(0)) THEN Rat(14, 10)
    ELSE IF RLeq(deviation, R(5)) THEN R(1)
    ELSE IF RLeq(deviation, R(15)) THEN Rat(5, 10)
    ELSE IF RLeq(deviation, R(25)) THEN Rat(2, 10)
    ELSE Zero

\* A variant that counts every purchase twice
DFA_execute_investment_recount(self, current_price, ma120_value, current_date, available_cash) ==
    LET deviation == calculate_deviation(current_price, ma120_value)
        multiplier == DFA_get_investment_multiplier(deviation)
        amount == RMul(self.base_cash, multiplier)
        investment_amount ==
            IF available_cash[1] = "some" /\ RLess(available_cash[2], amount)
            THEN available_cash[2] ELSE amount
    IN  {IF r.ret.action = "buy" THEN [r EXCEPT !.state.investment_count = @ + 1] ELSE r :
            r \in Invest(self, investment_amount, deviation, multiplier,
                         current_price, ma120_value, current_date)}

\* DFAStrategyLogic.execute_investment: the results it can have
DFA_execute_investment(self, current_price, ma120_value, current_date, available_cash) ==
    LET deviation == calculate_deviation(current_price, ma120_value)
        multiplier == DFA_get_investment_multiplier(deviation)
        amount == RMul(self.base_cash, multiplier)
        investment_amount ==
            IF available_cash[1] = "some" /\ RLess(available_cash[2], amount)
            THEN available_cash[2] ELSE amount
    IN  Invest(self, investment_amount, deviation, multiplier,
               current_price, ma120_value, current_date)

\* A variant whose sale keeps only its own record in profit_history
DFA_execute_profit_taking_latest(self, current_price, current_date) ==
    {IF r.ret.action = "sell"
     THEN [r EXCEPT !.state.profit_history = <<@[Len(@)]>>]
     ELSE r :
        r \in ProfitTaking(self, self, current_price, current_date)}

\* A variant that stamps the profit-taking date on every outcome
DFA_execute_profit_taking_dated(self, current_price, current_date) ==
    {[r EXCEPT !.state.last_profit_taking_date = current_date] :
        r \in ProfitTaking(self, self, current_price, current_date)}

\* DFAStrategyLogic.execute_profit_taking: the results it can have
DFA_execute_profit_taking(self, current_price, current_date) ==
    ProfitTaking(self, self, current_price, current_date)

\* ------------------------------------------------ MultiAssetDFAStrategy

Range(seq) == {seq[i] : i \in DOMAIN seq}

\* dict.get(key, default)
Get(dict, key, default) == IF key \in DOMAIN dict THEN dict[key] ELSE default

\* the keys of the base_cash dict of __init__
BaseCashKeys == {"ETH/USDT", "SOL/USDT", "SUI/USDT"}

\* os.getenv of __init__: the process environment env gives SYMBOLS,
\* BASE_CASH_ETH/SOL/SUI, INVESTMENT_INTERVAL and TARGET_RETURN
MultiAssetDFAStrategy(env) ==
    [symbols |-> env.SYMBOLS,
     base_cash |-> [k \in BaseCashKeys |->
                      IF k = "ETH/USDT" THEN env.BASE_CASH_ETH
                      ELSE IF k = "SOL/USDT" THEN env.BASE_CASH_SOL
                      ELSE env.BASE_CASH_SUI],
     investment_interval |-> env.INVESTMENT_INTERVAL,
     target_return |-> env.TARGET_RETURN,
     sell_ratio |-> Rat(1, 2),
     profit_taking_cooldown |-> 30,
     symbol_states |-> [s \in Range(env.SYMBOLS) |-> EmptyState]]

MA_get_investment_multiplier(deviation) ==
    IF RLeq(deviation, R(-20)) THEN Rat(16, 10)
    ELSE IF RLeq(deviation, R(-10)) THEN Rat(14, 10)
    ELSE IF RLeq(deviation, R(0)) THEN Rat(12, 10)
    ELSE IF RLeq(deviation, R(5)) THEN R(1)
    ELSE IF RLeq(deviation, R(15)) THEN Rat(5, 10)
    ELSE IF RLeq(deviation, R(25)) THEN Rat(2, 10)
    ELSE Zero

\* a gate that is open on every date
MA_should_invest_today_always(self, current_date, symbol) ==
    IF symbol \notin DOMAIN self.symbol_states THEN "KeyError" ELSE "yes"

\* MultiAssetDFAStrategy.should_invest_today; "KeyError" for a symbol
\* without a state
MA_should_invest_today(self, current_date, symbol) ==
    IF symbol \notin DOMAIN self.symbol_states THEN "KeyError"
    ELSE should_invest_today(self.symbol_states[symbol], self.investment_interval, current_date)

\* the amount with an absent available_cash read as no cash at all
MA_investment_amount_no_cash(base_cash, multiplier, max_single_order, available_cash) ==
    LET amount == RMul(base_cash, multiplier)
        capped == IF RLess(max_single_order, amount) THEN max_single_order ELSE amount
    IN  IF available_cash[1] = "none" THEN Zero
        ELSE IF RLess(available_cash[2], capped) THEN available_cash[2] ELSE capped

\* the amount execute_investment hands to the size computation: base cash
\* times multiplier, capped by MAX_SINGLE_ORDER, then by available_cash
MA_investment_amount(base_cash, multiplier, max_single_order, available_cash) ==
    LET amount == RMul(base_cash, multiplier)
        capped == IF RLess(max_single_order, amount) THEN max_single_order ELSE amount
    IN  IF available_cash[1] = "some" /\ RLess(available_cash[2], capped)
        THEN available_cash[2] ELSE capped

\* A variant in which every symbol shares one state object
OnSymbol_shared(self, symbol, r) ==
    [state |-> [self EXCEPT !.symbol_states = [s \in DOMAIN self.symbol_states |-> r.state]],
     ret |-> IF r.ret.action \in {"buy", "sell"}
             THEN r.ret @@ [symbol |-> symbol] ELSE r.ret]

\* a core result on one symbol's state as a result on the strategy
OnSymbol(self, symbol, r) ==
    [state |-> [self EXCEPT !.symbol_states[symbol] = r.state],
     ret |-> IF r.ret.action \in {"buy", "sell"}
             THEN r.ret @@ [symbol |-> symbol] ELSE r.ret]

\* MultiAssetDFAStrategy.execute_investment: the results it can have
MA_execute_investment(self, env, symbol, current_price, ma120_value, current_date, available_cash) ==
    IF symbol \notin DOMAIN self.symbol_states \/ symbol \notin DOMAIN self.base_cash
    THEN {Raise(self, "KeyError")}
    ELSE LET state == self.symbol_states[symbol]
             deviation == calculate_deviation(current_price, ma120_value)
             multiplier == MA_get_investment_multiplier(deviation)
             investment_amount ==
                 MA_investment_amount(self.base_cash[symbol], multiplier,
                                      env.MAX_SINGLE_ORDER, available_cash)
         IN  {OnSymbol(self, symbol, r) :
                r \in Invest(state, investment_amount, deviation, multiplier,
                             current_price, ma120_value, current_date)}

\* MultiAssetDFAStrategy.execute_profit_taking: the results it can have
MA_execute_profit_taking(self, symbol, current_price, current_date) ==
    IF symbol \notin DOMAIN self.symbol_states THEN {Raise(self, "KeyError")}
    ELSE {OnSymbol(self, symbol, r) :
            r \in ProfitTaking(self.symbol_states[symbol], self, current_price, current_date)}

\* ------------------------------------------------------------ persistence

\* a state's fields as to_dict writes them: the dates as ISO strings (None
\* stays None), the float total_shares with its rounding error
Serialize(state, d1, d2) ==
    [investment_count |-> state.investment_count,
     last_investment_date |-> d1,
     last_profit_taking_date |-> d2,
     total_invested |-> state.total_invested,
     total_shares |-> <<state.total_shares, state.fp_err>>,
     total_sell_amount |-> state.total_sell_amount,
     investment_history |-> state.investment_history,
     profit_history |-> state.profit_history]

\* x.isoformat() if x else None
IsoOrNull(x) == IF x = None THEN <<"null", 0>> ELSE isoformat(x)

\* DFAStrategyLogic.to_dict
DFA_to_dict(self) ==
    Serialize(self, IsoOrNull(self.last_investment_date), IsoOrNull(self.last_profit_taking_date))

\* MultiAssetDFAStrategy.to_dict
MA_to_dict(self) ==
    [symbols |-> self.symbols,
     symbol_states |->
        [s \in DOMAIN self.symbol_states |->
            Serialize(self.symbol_states[s],
                      IsoOrNull(self.symbol_states[s].last_investment_date),
                      IsoOrNull(self.symbol_states[s].last_profit_taking_date))]]

\* Deserialize reading total_sell_amount under a key to_dict does not write
Deserialize_wrong_key(raw, d1, d2) ==
    [investment_count |-> Get(raw, "investment_count", 0),
     last_investment_date |-> d1,
     last_profit_taking_date |-> d2,
     total_invested |-> Get(raw, "total_invested", Zero),
     total_shares |-> Get(raw, "total_shares", <<Zero, "exact">>)[1],
     fp_err |-> Get(raw, "total_shares", <<Zero, "exact">>)[2],
     total_sell_amount |-> Get(raw, "total_sold", Zero),
     investment_history |-> Get(raw, "investment_history", <<>>),
     profit_history |-> Get(raw, "profit_history", <<>>)]

\* the number fields and the histories read with dict.get and a default
Deserialize(raw, d1, d2) ==
    [investment_count |-> Get(raw, "investment_count", 0),
     last_investment_date |-> d1,
     last_profit_taking_date |-> d2,
     total_invested |-> Get(raw, "total_invested", Zero),
     total_shares |-> Get(raw, "total_shares", <<Zero, "exact">>)[1],
     fp_err |-> Get(raw, "total_shares", <<Zero, "exact">>)[2],
     total_sell_amount |-> Get(raw, "total_sell_amount", Zero),
     investment_history |-> Get(raw, "investment_history", <<>>),
     profit_history |-> Get(raw, "profit_history", <<>>)]

\* the stored value of a date field, None for a missing key (dict.get)
StoredDate(raw, key) == Get(raw, key, <<"null", 0>>)

\* DFAStrategyLogic.from_dict: the fields are assigned in order, and
\* datetime.fromisoformat raises on a string that is no ISO date (ValueError)
\* and on a value that is no string (TypeError), leaving the later fields as
\* they were
DFA_ParseDate(s) == IF Truthy(s) THEN fromisoformat(s) ELSE None
DFA_ParseError(s) ==
    IF ~Truthy(s) \/ CanParse(s) THEN "none"
    ELSE IF s[1] = "number" THEN "TypeError" ELSE "ValueError"

DFA_from_dict(self, data) ==
    LET s1 == StoredDate(data, "last_investment_date")
        s2 == StoredDate(data, "last_profit_taking_date")
        e1 == DFA_ParseError(s1)
        e2 == DFA_ParseError(s2)
        config == [k \in DOMAIN self \ StateFields |-> self[k]]
    IN  IF e1 # "none"
        THEN [state |-> [self EXCEPT !.investment_count = Get(data, "investment_count", 0)],
              error |-> e1]
        ELSE IF e2 # "none"
        THEN [state |-> [self EXCEPT !.investment_count = Get(data, "investment_count", 0),
                                     !.last_investment_date = DFA_ParseDate(s1)],
              error |-> e2]
        ELSE [state |-> config @@ Deserialize(data, DFA_ParseDate(s1), DFA_ParseDate(s2)),
              error |-> "none"]

\* the date parsing of MultiAssetDFAStrategy.from_dict: fromisoformat(..)
\* .date() inside try / except (ValueError, TypeError)
MA_ParseDate(s) == IF Truthy(s) /\ CanParse(s) THEN ToDate(fromisoformat(s)) ELSE None

\* MultiAssetDFAStrategy.from_dict; data has the keys "symbols" and
\* "symbol_states" or lacks them
MA_from_dict(self, data) ==
    LET symbols == Get(data, "symbols", self.symbols)
        raw_states == Get(data, "symbol_states", <<>>)
    IN  [self EXCEPT
            !.symbols = symbols,
            !.symbol_states =
                [s \in Range(symbols) |->
                    IF s \in DOMAIN raw_states
                    THEN Deserialize(raw_states[s],
                                     MA_ParseDate(StoredDate(raw_states[s], "last_investment_date")),
                                     MA_ParseDate(StoredDate(raw_states[s], "last_profit_taking_date")))
                    ELSE EmptyState]]

\* ------------------------------------------------------------------ state

VARIABLES
    env,        \* the process environment (os.getenv)
    variant,    \* which class is driven: "single", "multi", or "live" for DFALiveTrading
    dfa,        \* the DFAStrategyLogic instance
    strategy,   \* the MultiAssetDFAStrategy instance (self.strategy of DFALiveTrading)
    today,      \* the day number of the current date
    call,       \* the last operation: its arguments, the state before, its result
    ncalls,     \* the operations so far
    file,       \* data/multi_strategy_state.json, or the dict handed to from_dict
    pc,         \* where the DFALiveTrading process is
    idx,        \* the position of the tick's loop in self.strategy.symbols
    tick,       \* the locals of run_strategy_check and what the tick has done
    orders,     \* the orders submitted to the exchange so far
    nticks,     \* the calls of run_strategy_check so far
    crashes,    \* the times the process was killed so far
    in_loop     \* the process is in the scheduler loop of run (inside its try)

callVars == <<dfa, today, call, ncalls>>
liveVars == <<pc, idx, tick, orders, nticks, crashes, in_loop>>
vars == <<env, variant, dfa, strategy, today, call, ncalls, file,
          pc, idx, tick, orders, nticks, crashes, in_loop>>

\* ----------------------------------------------------------------- inputs

MaxCalls == 4

\* <<current price, MA120>>: deviation 0 by the guard, 0 and +100
Markets == {<<R(3000), Zero>>, <<R(6000), R(6000)>>, <<R(6000), R(3000)>>}
Prices == {m[1] : m \in Markets}
CashArgs == {NoCash, Cash(R(10))}
DayJumps == {14, 30}
SellRatios == {Rat(1, 2), R(1)}

\* the environment without any of the variables set: the defaults of the code
DefaultEnv ==
    [SYMBOLS |-> <<"ETH/USDT", "SOL/USDT", "SUI/USDT">>,
     BASE_CASH_ETH |-> R(28),
     BASE_CASH_SOL |-> R(28),
     BASE_CASH_SUI |-> R(14),
     INVESTMENT_INTERVAL |-> 14,
     TARGET_RETURN |-> R(75),
     MAX_SINGLE_ORDER |-> R(100),
     DRY_RUN |-> TRUE]

\* SYMBOLS=ETH/USDT,SUI/USDT BASE_CASH_ETH=100
TwoSymbolEnv ==
    [DefaultEnv EXCEPT !.SYMBOLS = <<"ETH/USDT", "SUI/USDT">>, !.BASE_CASH_ETH = R(100)]

CallEnvs == {TwoSymbolEnv}

\* ------------------------------------------- calls of the two classes

NoCall == [op |-> "none"]

\* no state file on disk (os.path.exists is false)
NoFile == [exists |-> FALSE]
StateFile(data) == [exists |-> TRUE, data |-> data]

\* outside run_strategy_check
NoTick == [running |-> FALSE, saves |-> 0]

InitCalls ==
    /\ variant \in {"single", "multi"}
    /\ env \in IF variant = "multi" THEN CallEnvs ELSE {DefaultEnv}
    /\ dfa \in IF variant = "single"
               THEN {DFAStrategyLogic(r) : r \in SellRatios}
               ELSE {DFAStrategyLogic(Rat(1, 2))}
    /\ strategy = MultiAssetDFAStrategy(env)
    /\ today = 0
    /\ call = NoCall
    /\ ncalls = 0
    /\ file = NoFile
    /\ pc = "off" /\ idx = 0 /\ tick = NoTick /\ orders = <<>>
    /\ nticks = 0 /\ crashes = 0 /\ in_loop = FALSE

\* dfa.execute_investment(price, ma, date, cash)
SingleInvest ==
    /\ variant = "single" /\ ncalls < MaxCalls
    /\ \E m \in Markets, cash \in CashArgs :
         \E r \in DFA_execute_investment(dfa, m[1], m[2], Date(today), cash) :
            /\ dfa' = r.state
            /\ call' = [op |-> "execute_investment", symbol |-> "", price |-> m[1],
                        ma |-> m[2], cash |-> cash, cap |-> NoCash,
                        before |-> [k \in StateFields |-> dfa[k]], ret |-> r.ret]
    /\ ncalls' = ncalls + 1
    /\ UNCHANGED <<env, variant, strategy, today>>
    /\ UNCHANGED <<file, liveVars>>

\* dfa.execute_profit_taking(price, date)
SingleProfit ==
    /\ variant = "single" /\ ncalls < MaxCalls
    /\ \E price \in Prices :
         \E r \in DFA_execute_profit_taking(dfa, price, Date(today)) :
            /\ dfa' = r.state
            /\ call' = [op |-> "execute_profit_taking", symbol |-> "", price |-> price,
                        before |-> [k \in StateFields |-> dfa[k]], ret |-> r.ret]
    /\ ncalls' = ncalls + 1
    /\ UNCHANGED <<env, variant, strategy, today>>
    /\ UNCHANGED <<file, liveVars>>

\* strategy.execute_investment(symbol, price, ma, date, cash)
MultiInvest ==
    /\ variant = "multi" /\ ncalls < MaxCalls
    /\ \E symbol \in Range(strategy.symbols), m \in Markets, cash \in CashArgs :
         \E r \in MA_execute_investment(strategy, env, symbol, m[1], m[2], Date(today), cash) :
            /\ strategy' = r.state
            /\ call' = [op |-> "execute_investment", symbol |-> symbol, price |-> m[1],
                        ma |-> m[2], cash |-> cash, cap |-> Cash(env.MAX_SINGLE_ORDER),
                        before |-> strategy.symbol_states[symbol], ret |-> r.ret]
    /\ ncalls' = ncalls + 1
    /\ UNCHANGED <<env, variant, dfa, today>>
    /\ UNCHANGED <<file, liveVars>>

\* strategy.execute_profit_taking(symbol, price, date)
MultiProfit ==
    /\ variant = "multi" /\ ncalls < MaxCalls
    /\ \E symbol \in Range(strategy.symbols), price \in Prices :
         \E r \in MA_execute_profit_taking(strategy, symbol, price, Date(today)) :
            /\ strategy' = r.state
            /\ call' = [op |-> "execute_profit_taking", symbol |-> symbol, price |-> price,
                        before |-> strategy.symbol_states[symbol], ret |-> r.ret]
    /\ ncalls' = ncalls + 1
    /\ UNCHANGED <<env, variant, dfa, today>>
    /\ UNCHANGED <<file, liveVars>>

\* the date moves on between two calls
NextDay ==
    /\ variant \in {"single", "multi"} /\ ncalls < MaxCalls
    /\ \E j \in DayJumps : today' = today + j
    /\ ncalls' = ncalls + 1
    /\ call' = NoCall
    /\ UNCHANGED <<env, variant, dfa, strategy>>
    /\ UNCHANGED <<file, liveVars>>

\* a new DFAStrategyLogic of the same configuration, loaded with
\* dfa.to_dict()
SingleReload ==
    /\ variant = "single" /\ ncalls < MaxCalls
    /\ LET fresh == [k \in DOMAIN dfa |-> IF k \in StateFields THEN EmptyState[k] ELSE dfa[k]]
           r == DFA_from_dict(fresh, DFA_to_dict(dfa))
       IN  /\ dfa' = r.state
           /\ call' = [op |-> "reload", symbol |-> "", before |-> dfa, error |-> r.error]
    /\ ncalls' = ncalls + 1
    /\ UNCHANGED <<env, variant, strategy, today>>
    /\ UNCHANGED <<file, liveVars>>

\* a new MultiAssetDFAStrategy loaded with strategy.to_dict(), as
\* save_strategy_state and load_strategy_state do through the state file
MultiReload ==
    /\ variant = "multi" /\ ncalls < MaxCalls
    /\ strategy' = MA_from_dict(MultiAssetDFAStrategy(env), MA_to_dict(strategy))
    /\ call' = [op |-> "reload", symbol |-> "", before |-> strategy, error |-> "none"]
    /\ ncalls' = ncalls + 1
    /\ UNCHANGED <<env, variant, dfa, today>>
    /\ UNCHANGED <<file, liveVars>>

\* days ahead of today at which the interval gate is asked
GateOffsets == {0, 13, 14}

\* dfa.should_invest_today(date)
SingleGate ==
    /\ variant = "single" /\ ncalls < MaxCalls
    /\ \E k \in GateOffsets :
          call' = [op |-> "should_invest_today", symbol |-> "", date |-> Date(today + k),
                   interval |-> dfa.investment_interval,
                   before |-> [f \in StateFields |-> dfa[f]],
                   ret |-> should_invest_today(dfa, dfa.investment_interval, Date(today + k))]
    /\ ncalls' = ncalls + 1
    /\ UNCHANGED <<env, variant, dfa, strategy, today>>
    /\ UNCHANGED <<file, liveVars>>

\* strategy.should_invest_today(date, symbol)
MultiGate ==
    /\ variant = "multi" /\ ncalls < MaxCalls
    /\ \E symbol \in Range(strategy.symbols), k \in GateOffsets :
          call' = [op |-> "should_invest_today", symbol |-> symbol, date |-> Date(today + k),
                   interval |-> strategy.investment_interval,
                   before |-> strategy.symbol_states[symbol],
                   ret |-> MA_should_invest_today(strategy, Date(today + k), symbol)]
    /\ ncalls' = ncalls + 1
    /\ UNCHANGED <<env, variant, dfa, strategy, today>>
    /\ UNCHANGED <<file, liveVars>>

NextCalls ==
    \/ SingleInvest
    \/ SingleProfit
    \/ MultiInvest
    \/ MultiProfit
    \/ NextDay
    \/ SingleReload
    \/ MultiReload
    \/ SingleGate
    \/ MultiGate

SpecCalls == InitCalls /\ [][NextCalls]_vars

\* --------------------------------------- single calls on chosen cases

MaxCases == 3

\* <<current price, MA120>>: deviations 0, -20 and +100, and a price of 0
CaseMarkets == {<<R(90), R(90)>>, <<R(100), R(125)>>, <<R(100), R(50)>>, <<Zero, Zero>>}
CasePrices == {R(90), Zero}

\* available_cash: None, 0, and 0.001 (too little for a size of 0.0001)
CaseCash == {NoCash, Cash(Zero), Cash(Rat(1, 1000))}

\* a position of 10 shares bought for 500 on day 0
HeldState ==
    InvestWith(EmptyState, R(500), Rat(25, 6), R(1), R(50), R(48), Date(0), FALSE, "exact").state

CaseStates == {EmptyState, HeldState}

\* the instance self holding the state st
WithState(self, st) == [k \in DOMAIN self |-> IF k \in StateFields THEN st[k] ELSE self[k]]

InitCases ==
    /\ variant \in {"single", "multi"}
    /\ env = DefaultEnv
    /\ dfa \in {WithState(DFAStrategyLogic(Rat(1, 2)), st) :
                    st \in IF variant = "single" THEN CaseStates ELSE {EmptyState}}
    /\ strategy \in {[MultiAssetDFAStrategy(env) EXCEPT !.symbol_states["ETH/USDT"] = st] :
                        st \in IF variant = "multi" THEN CaseStates ELSE {EmptyState}}
    /\ today = 0
    /\ call = NoCall
    /\ ncalls = 0
    /\ file = NoFile
    /\ pc = "off" /\ idx = 0 /\ tick = NoTick /\ orders = <<>>
    /\ nticks = 0 /\ crashes = 0 /\ in_loop = FALSE

\* dfa.execute_investment(price, ma, date, cash)
CaseSingleInvest ==
    /\ variant = "single" /\ ncalls < MaxCases
    /\ \E m \in CaseMarkets, cash \in CaseCash :
         \E r \in DFA_execute_investment(dfa, m[1], m[2], Date(today), cash) :
            /\ dfa' = r.state
            /\ call' = [op |-> "execute_investment", symbol |-> "", price |-> m[1],
                        ma |-> m[2], cash |-> cash, cap |-> NoCash,
                        before |-> [k \in StateFields |-> dfa[k]], ret |-> r.ret]
    /\ ncalls' = ncalls + 1
    /\ UNCHANGED <<env, variant, strategy, today, file, liveVars>>

\* dfa.execute_profit_taking(price, date)
CaseSingleProfit ==
    /\ variant = "single" /\ ncalls < MaxCases
    /\ \E price \in CasePrices :
         \E r \in DFA_execute_profit_taking(dfa, price, Date(today)) :
            /\ dfa' = r.state
            /\ call' = [op |-> "execute_profit_taking", symbol |-> "", price |-> price,
                        before |-> [k \in StateFields |-> dfa[k]], ret |-> r.ret]
    /\ ncalls' = ncalls + 1
    /\ UNCHANGED <<env, variant, strategy, today, file, liveVars>>

\* strategy.execute_investment(symbol, price, ma, date, cash)
CaseMultiInvest ==
    /\ variant = "multi" /\ ncalls < MaxCases
    /\ \E symbol \in Range(strategy.symbols), m \in CaseMarkets, cash \in CaseCash :
         \E r \in MA_execute_investment(strategy, env, symbol, m[1], m[2], Date(today), cash) :
            /\ strategy' = r.state
            /\ call' = [op |-> "execute_investment", symbol |-> symbol, price |-> m[1],
                        ma |-> m[2], cash |-> cash, cap |-> Cash(env.MAX_SINGLE_ORDER),
                        before |-> strategy.symbol_states[symbol], ret |-> r.ret]
    /\ ncalls' = ncalls + 1
    /\ UNCHANGED <<env, variant, dfa, today, file, liveVars>>

\* strategy.execute_profit_taking(symbol, price, date)
CaseMultiProfit ==
    /\ variant = "multi" /\ ncalls < MaxCases
    /\ \E symbol \in Range(strategy.symbols), price \in CasePrices :
         \E r \in MA_execute_profit_taking(strategy, symbol, price, Date(today)) :
            /\ strategy' = r.state
            /\ call' = [op |-> "execute_profit_taking", symbol |-> symbol, price |-> price,
                        before |-> strategy.symbol_states[symbol], ret |-> r.ret]
    /\ ncalls' = ncalls + 1
    /\ UNCHANGED <<env, variant, dfa, today, file, liveVars>>

NextCases ==
    \/ CaseSingleInvest
    \/ CaseSingleProfit
    \/ CaseMultiInvest
    \/ CaseMultiProfit

SpecCases == InitCases /\ [][NextCases]_vars

\* ------------------------------------------------ the pure functions

\* the steps of the multiplier table
Boundaries == {-20, -10, 0, 5, 15, 25}

\* the deviations tried: every whole number of -30 .. 30 and every boundary
\* -0.001, +0.001
Deviations ==
    {R(n) : n \in -30 .. 30}
    \cup {Rat(1000 * b + e, 1000) : b \in Boundaries, e \in {-1, 1}}

Multipliers(d) ==
    [d |-> d, single |-> DFA_get_investment_multiplier(d),
     multi |-> MA_get_investment_multiplier(d)]

InitPure ==
    /\ variant = "pure"
    /\ env = DefaultEnv
    /\ dfa = DFAStrategyLogic(Rat(1, 2))
    /\ strategy = MultiAssetDFAStrategy(env)
    /\ today = 0
    /\ call = NoCall
    /\ ncalls = 0
    /\ file = NoFile
    /\ pc = "off" /\ idx = 0 /\ tick = NoTick /\ orders = <<>>
    /\ nticks = 0 /\ crashes = 0 /\ in_loop = FALSE

\* get_investment_multiplier(d) of both classes; the call before it is kept
GetMultiplier ==
    /\ variant = "pure"
    /\ \E d \in Deviations :
         call' = [op |-> "get_investment_multiplier", now |-> Multipliers(d),
                  prev |-> IF call.op = "get_investment_multiplier"
                           THEN call.now ELSE Multipliers(d)]
    /\ UNCHANGED <<env, variant, dfa, strategy, today, ncalls, file, liveVars>>

NextPure == GetMultiplier

SpecPure == InitPure /\ [][NextPure]_vars

\* ------------------------------------------- loading of stored data

\* what a stored date field can hold: null, the isoformat of a date or of a
\* datetime, a string that is no ISO date, the empty string, a number
DateValues ==
    {<<"null", 0>>, <<"str-date", 5>>, <<"str-datetime", 5>>,
     <<"str-bad", 0>>, <<"str-empty", 0>>, <<"number", 5>>}

\* the date values that are a malformed or an absent date string
BadDateStrings == {<<"null", 0>>, <<"str-bad", 0>>, <<"str-empty", 0>>}

\* the state after one buy of 98 at 3000 on day 5
BoughtState ==
    InvestWith(EmptyState, R(98), Zero, Rat(7, 5), R(3000), Zero, Date(5), FALSE, "exact").state

\* the keys a stored state can have kept
KeySets ==
    {StateFields \ {"fp_err"},
     StateFields \ {"fp_err", "last_investment_date", "last_profit_taking_date"},
     {"investment_count", "last_investment_date"},
     {}}

Restrict(dict, keys) == [k \in keys \cap DOMAIN dict |-> dict[k]]

\* the stored states: what to_dict wrote, with any date value and any of the
\* key sets
RawStates ==
    {Restrict(Serialize(st, d1, d2), keys) :
        st \in {EmptyState, BoughtState}, d1 \in DateValues, d2 \in DateValues, keys \in KeySets}

\* the stored dicts of the multi-asset class: written under SYMBOLS=ETH/USDT,
\* SOL/USDT or SYMBOLS=ETH/USDT, or lacking the key "symbols"
StoredSymbols == {<<"ETH/USDT", "SOL/USDT">>, <<"ETH/USDT">>}

StoredStates(raw, symbols) ==
    [s \in Range(symbols) |->
        IF s = "ETH/USDT" THEN raw ELSE Serialize(BoughtState, <<"str-date", 5>>, <<"null", 0>>)]

StoredDicts ==
    UNION {{[symbols |-> symbols, symbol_states |-> StoredStates(raw, symbols)],
            [symbol_states |-> StoredStates(raw, symbols)],
            [symbols |-> symbols]} :
           raw \in RawStates, symbols \in StoredSymbols}

LoadEnvs == {DefaultEnv, TwoSymbolEnv}

InitLoad ==
    /\ variant \in {"single", "multi"}
    /\ env \in IF variant = "multi" THEN LoadEnvs ELSE {DefaultEnv}
    /\ dfa = DFAStrategyLogic(Rat(1, 2))
    /\ strategy = MultiAssetDFAStrategy(env)
    /\ file \in IF variant = "multi"
                THEN {StateFile(d) : d \in StoredDicts}
                ELSE {StateFile(d) : d \in RawStates}
    /\ today = 0
    /\ call = NoCall
    /\ ncalls = 0
    /\ pc = "off" /\ idx = 0 /\ tick = NoTick /\ orders = <<>>
    /\ nticks = 0 /\ crashes = 0 /\ in_loop = FALSE

\* DFAStrategyLogic().from_dict(data)
SingleLoad ==
    /\ variant = "single" /\ call = NoCall
    /\ LET r == DFA_from_dict(dfa, file.data)
       IN  /\ dfa' = r.state
           /\ call' = [op |-> "from_dict", before |-> dfa, error |-> r.error]
    /\ ncalls' = ncalls + 1
    /\ UNCHANGED <<env, variant, strategy, today, file, liveVars>>

\* MultiAssetDFAStrategy().from_dict(data), as load_strategy_state calls it
MultiLoad ==
    /\ variant = "multi" /\ call = NoCall
    /\ strategy' = MA_from_dict(strategy, file.data)
    /\ call' = [op |-> "from_dict", before |-> strategy, error |-> "none"]
    /\ ncalls' = ncalls + 1
    /\ UNCHANGED <<env, variant, dfa, today, file, liveVars>>

NextLoad ==
    \/ SingleLoad
    \/ MultiLoad

SpecLoad == InitLoad /\ [][NextLoad]_vars

\* ------------------------------------------------------ DFALiveTrading

MaxTicks == 2
MaxCrashes == 1

\* SYMBOLS=ETH/USDT BASE_CASH_ETH=100 DRY_RUN=false
RealEnv ==
    [DefaultEnv EXCEPT !.SYMBOLS = <<"ETH/USDT">>, !.BASE_CASH_ETH = R(100), !.DRY_RUN = FALSE]

\* SYMBOLS=ETH/USDT,BTC/USDT: a symbol the base_cash table lacks
UnknownSymbolEnv == [DefaultEnv EXCEPT !.SYMBOLS = <<"ETH/USDT", "BTC/USDT">>]

LiveEnvs == {RealEnv, TwoSymbolEnv, UnknownSymbolEnv}

\* what get_current_price and calculate_ma120 return for a symbol: a number
\* each, or None for a failed fetch
Quote(price, ma) == [price |-> price, ma |-> ma]
Calm == Quote(Cash(R(3000)), Cash(R(3000)))
Doubled == Quote(Cash(R(6000)), Cash(R(3000)))
FlatZero == Quote(Cash(R(3000)), Cash(Zero))
Failed == Quote(NoCash, Cash(R(3000)))

\* the exchange at the time of a tick: the quote of ETH/USDT and the quote
\* of every other symbol
Exchanges == {<<Calm, Calm>>, <<Doubled, Failed>>, <<FlatZero, Calm>>, <<Failed, Calm>>}
QuoteOf(exchange, symbol) == IF symbol = "ETH/USDT" THEN exchange[1] ELSE exchange[2]

\* the days from one tick to the next
LiveJumps == {0, 14}

\* get_account_balance: 1000.0 in dry run, else the free balance, None when
\* the fetch fails
Balances(e) == IF e.DRY_RUN THEN {Cash(R(1000))} ELSE {NoCash, Cash(R(10))}

\* execute_buy_order / execute_sell_order: the order dict, or None when the
\* exchange raises; a dry run never fails
OrderOutcomes(e) == IF e.DRY_RUN THEN {"ok"} ELSE {"ok", "failed"}

Order(side, symbol, day, size, status) ==
    [side |-> side, symbol |-> symbol, day |-> day, size |-> size, status |-> status]

\* load_strategy_state: a new strategy, loaded from the state file if there
\* is one
load_strategy_state(e, f) ==
    IF f.exists THEN MA_from_dict(MultiAssetDFAStrategy(e), f.data)
    ELSE MultiAssetDFAStrategy(e)

\* the deviation the first loop of run_strategy_check computes and logs,
\* (price - ma120) / ma120 * 100 on a numpy float64: inf for ma120 = 0
Finite(q) == <<"finite", q>>
Infinite == <<"inf", Zero>>
LoggedDeviation(price, ma120) ==
    IF ma120 = Zero THEN Infinite
    ELSE Finite(RMul(RDiv(RSub(price, ma120), ma120), R(100)))

\* every symbol taken as fetched, None read as 0
Fetched_all(symbols, exchange) == Range(symbols)

\* the symbols whose price and MA120 were both fetched
Fetched(symbols, exchange) ==
    {s \in Range(symbols) :
        QuoteOf(exchange, s).price # NoCash /\ QuoteOf(exchange, s).ma # NoCash}

\* step 1 of the loop body: execute_profit_taking and, on a sell, the order
EvalProfit(self, e, symbol, price, date) ==
    UNION {IF r.ret.action = "sell"
           THEN {[strategy |-> r.state, profit |-> r.ret,
                  orders |-> <<Order("sell", symbol, date[2], r.ret.size, st)>>] :
                    st \in OrderOutcomes(e)}
           ELSE {[strategy |-> r.state, profit |-> r.ret, orders |-> <<>>]} :
           r \in MA_execute_profit_taking(self, symbol, price, date)}

NoResult == [action |-> "none"]

\* step 2 with the purchase taken back when its order fails
EvalInvest_rollback(self, e, symbol, price, ma120, date) ==
    LET gate == MA_should_invest_today(self, date, symbol)
    IN  IF gate = "no"
        THEN {[strategy |-> self, gate |-> gate, cash |-> NoCash, invest |-> NoResult,
               orders |-> <<>>]}
        ELSE IF gate # "yes"
        THEN {[strategy |-> self, gate |-> gate, cash |-> NoCash,
               invest |-> Raise(self, gate).ret, orders |-> <<>>]}
        ELSE UNION {
            UNION {IF r.ret.action = "buy"
                   THEN {[strategy |-> IF st = "failed" THEN self ELSE r.state,
                          gate |-> gate, cash |-> cash, invest |-> r.ret,
                          orders |-> <<Order("buy", symbol, date[2], r.ret.size, st)>>] :
                            st \in OrderOutcomes(e)}
                   ELSE {[strategy |-> r.state, gate |-> gate, cash |-> cash, invest |-> r.ret,
                          orders |-> <<>>]} :
                   r \in MA_execute_investment(self, e, symbol, price, ma120, date, cash)} :
            cash \in Balances(e)}

\* step 2 of the loop body: should_invest_today, then the balance,
\* execute_investment and, on a buy, the order
EvalInvest(self, e, symbol, price, ma120, date) ==
    LET gate == MA_should_invest_today(self, date, symbol)
    IN  IF gate = "no"
        THEN {[strategy |-> self, gate |-> gate, cash |-> NoCash, invest |-> NoResult,
               orders |-> <<>>]}
        ELSE IF gate # "yes"
        THEN {[strategy |-> self, gate |-> gate, cash |-> NoCash,
               invest |-> Raise(self, gate).ret, orders |-> <<>>]}
        ELSE UNION {
            UNION {IF r.ret.action = "buy"
                   THEN {[strategy |-> r.state, gate |-> gate, cash |-> cash, invest |-> r.ret,
                          orders |-> <<Order("buy", symbol, date[2], r.ret.size, st)>>] :
                            st \in OrderOutcomes(e)}
                   ELSE {[strategy |-> r.state, gate |-> gate, cash |-> cash, invest |-> r.ret,
                          orders |-> <<>>]} :
                   r \in MA_execute_investment(self, e, symbol, price, ma120, date, cash)} :
            cash \in Balances(e)}

\* the body of the second loop of run_strategy_check for one symbol
EvalSymbol(self, e, symbol, price, ma120, date) ==
    UNION {IF p.profit.action = "raise"
           THEN {[strategy |-> p.strategy, profit |-> p.profit, gate |-> "none",
                  cash |-> NoCash, invest |-> NoResult, orders |-> <<>>, raised |-> TRUE]}
           ELSE {[strategy |-> i.strategy, profit |-> p.profit, gate |-> i.gate,
                  cash |-> i.cash, invest |-> i.invest, orders |-> p.orders \o i.orders,
                  raised |-> i.invest.action = "raise"] :
                    i \in EvalInvest(p.strategy, e, symbol, price, ma120, date)} :
           p \in EvalProfit(self, e, symbol, price, date)}

\* where run_strategy_check goes after the loop body of the symbol at i:
\* the next symbol, or the status report and save_strategy_state
AfterSymbol_save_each(i, symbols) == "save"

AfterSymbol(i, symbols) == IF i < Len(symbols) THEN "eval" ELSE "save"

\* DFALiveTrading() has been constructed: the state file does not exist
Init ==
    /\ variant = "live"
    /\ env \in LiveEnvs
    /\ dfa = DFAStrategyLogic(Rat(1, 2))
    /\ file = NoFile
    /\ strategy = load_strategy_state(env, file)
    /\ today = 0
    /\ call = NoCall
    /\ ncalls = 0
    /\ pc = "idle" /\ idx = 0 /\ tick = NoTick /\ orders = <<>>
    /\ nticks = 0 /\ crashes = 0 /\ in_loop = FALSE

\* run_strategy_check up to the end of its first loop: the date and the
\* market data of every symbol
FetchMarketData ==
    /\ variant = "live" /\ pc = "idle" /\ nticks < MaxTicks
    /\ \E j \in IF in_loop THEN LiveJumps ELSE {0}, exchange \in Exchanges :
         LET fetched == Fetched(strategy.symbols, exchange)
         IN  /\ today' = today + j
             /\ tick' = [running |-> TRUE, saves |-> 0,
                         quotes |-> [s \in Range(strategy.symbols) |-> QuoteOf(exchange, s)],
                         current_date |-> Date(today + j),
                         current_prices |-> [s \in fetched |-> QuoteOf(exchange, s).price[2]],
                         ma120_values |-> [s \in fetched |-> QuoteOf(exchange, s).ma[2]],
                         deviation |-> [s \in fetched |->
                                          LoggedDeviation(QuoteOf(exchange, s).price[2],
                                                          QuoteOf(exchange, s).ma[2])]]
    /\ pc' = IF strategy.symbols = <<>> THEN "save" ELSE "eval"
    /\ idx' = 1
    /\ nticks' = nticks + 1
    /\ call' = NoCall
    /\ UNCHANGED <<env, variant, dfa, strategy, ncalls, file, orders, crashes, in_loop>>

\* one pass of the second loop of run_strategy_check
EvaluateSymbol ==
    /\ variant = "live" /\ pc = "eval"
    /\ LET symbol == strategy.symbols[idx]
       IN  IF symbol \notin DOMAIN tick.current_prices
           THEN /\ pc' = AfterSymbol(idx, strategy.symbols)
                /\ call' = [op |-> "continue", symbol |-> symbol]
                /\ UNCHANGED <<strategy, orders>>
           ELSE \E r \in EvalSymbol(strategy, env, symbol, tick.current_prices[symbol],
                                    tick.ma120_values[symbol], tick.current_date) :
                    /\ strategy' = r.strategy
                    /\ orders' = orders \o r.orders
                    /\ pc' = IF r.raised THEN "raised" ELSE AfterSymbol(idx, strategy.symbols)
                    /\ call' = [op |-> "evaluate", symbol |-> symbol, profit |-> r.profit,
                                gate |-> r.gate, cash |-> r.cash, invest |-> r.invest,
                                before |-> strategy.symbol_states[symbol]]
    /\ idx' = idx + 1
    /\ UNCHANGED <<env, variant, dfa, today, ncalls, file, tick, nticks, crashes, in_loop>>

\* the end of run_strategy_check: the status report and save_strategy_state,
\* which logs a failure to open the file and goes on
SaveState ==
    /\ variant = "live" /\ pc = "save"
    /\ \E written \in BOOLEAN :
         file' = IF written THEN StateFile(MA_to_dict(strategy)) ELSE file
    /\ tick' = [running |-> FALSE, saves |-> tick.saves + 1]
    /\ pc' = "idle"
    /\ in_loop' = TRUE
    /\ call' = NoCall
    /\ UNCHANGED <<env, variant, dfa, strategy, today, ncalls, idx, orders, nticks, crashes>>

\* an exception out of the first run_strategy_check of run (outside its
\* try) ends the process
ProcessExit ==
    /\ variant = "live" /\ pc = "raised" /\ ~in_loop
    /\ pc' = "down"
    /\ strategy' = MultiAssetDFAStrategy(env)
    /\ tick' = NoTick /\ idx' = 0 /\ call' = NoCall
    /\ UNCHANGED <<env, variant, dfa, today, ncalls, file, orders, nticks, crashes, in_loop>>

\* an exception out of a scheduled run_strategy_check is caught by run,
\* which calls run again: self.strategy is kept, the check runs at once
RunAgain ==
    /\ variant = "live" /\ pc = "raised" /\ in_loop
    /\ pc' = "idle"
    /\ in_loop' = FALSE
    /\ tick' = NoTick /\ idx' = 0 /\ call' = NoCall
    /\ UNCHANGED <<env, variant, dfa, strategy, today, ncalls, file, orders, nticks, crashes>>

\* the process is killed: what it held in memory is lost
Crash ==
    /\ variant = "live" /\ pc \in {"idle", "eval", "save", "raised"}
    /\ crashes < MaxCrashes
    /\ crashes' = crashes + 1
    /\ pc' = "down"
    /\ strategy' = MultiAssetDFAStrategy(env)
    /\ tick' = NoTick /\ idx' = 0 /\ call' = NoCall
    /\ UNCHANGED <<env, variant, dfa, today, ncalls, file, orders, nticks, in_loop>>

\* the process is started again: DFALiveTrading() loads the state file, run
\* checks at once
Restart ==
    /\ variant = "live" /\ pc = "down"
    /\ strategy' = load_strategy_state(env, file)
    /\ pc' = "idle"
    /\ in_loop' = FALSE
    /\ \E j \in LiveJumps : today' = today + j
    /\ UNCHANGED <<env, variant, dfa, call, ncalls, file, idx, tick, orders, nticks, crashes>>

Next ==
    \/ FetchMarketData
    \/ EvaluateSymbol
    \/ SaveState
    \/ ProcessExit
    \/ RunAgain
    \/ Crash
    \/ Restart

Spec == Init /\ [][Next]_vars

\* ----------------------------------------------------------------- claims

\* the states the calls act on: the single instance, or one per symbol
States ==
    IF variant = "single" THEN {[k \in StateFields |-> dfa[k]]}
    ELSE {strategy.symbol_states[s] : s \in DOMAIN strategy.symbol_states}

\* the last call was an execute_investment that returned a buy
Bought == call.op = "execute_investment" /\ call.ret.action = "buy"

\* the last call was an execute_profit_taking that returned a sell
Sold == call.op = "execute_profit_taking" /\ call.ret.action = "sell"

\* the state the last call acted on, after the call
After == IF variant = "single" THEN [k \in StateFields |-> dfa[k]]
         ELSE strategy.symbol_states[call.symbol]

\* C1: with available_cash supplied, the amount a buy invests (size * price,
\* the size rounded to 4 decimals) never exceeds available_cash, nor, in the
\* multi-asset class, MAX_SINGLE_ORDER
C1_BuyWithinCashAndCap ==
    Bought =>
        /\ call.cash[1] = "some" => RLeq(call.ret.amount, call.cash[2])
        /\ call.cap[1] = "some" => RLeq(call.ret.amount, call.cap[2])

\* C2: from an empty state, after any buys and sells, the floats
\* total_invested and total_shares are >= 0, and a sell removes no more
\* shares and no more cost basis than the state held
C2_NeverNegative ==
    /\ \A st \in States :
          /\ FloatSign(st.total_shares, st.fp_err) >= 0
          /\ FloatSign(st.total_invested, st.fp_err) >= 0
    /\ Sold =>
          /\ RLeq(call.ret.size, call.before.total_shares)
          /\ RLeq(RSub(call.before.total_invested, After.total_invested),
                  call.before.total_invested)

\* C3: a sell removes (sell_shares / total_shares) * total_invested taken
\* before the mutation, so the average cost per share is unchanged by a sell
\* that leaves shares, and a sell of all shares leaves total_invested = 0
C3_WeightedAverageCost ==
    Sold =>
        /\ RSub(call.before.total_invested, After.total_invested)
             = RMul(RDiv(call.ret.size, call.before.total_shares),
                    call.before.total_invested)
        /\ FloatSign(After.total_shares, After.fp_err) > 0
             => RMul(After.total_invested, call.before.total_shares)
                  = RMul(call.before.total_invested, After.total_shares)
        /\ After.total_shares = Zero
             => FloatSign(After.total_invested, After.fp_err) = 0

\* two date values name the same calendar date, or are both None
SameDate(a, b) == (a = None /\ b = None) \/ (a # None /\ b # None /\ a[2] = b[2])

\* two states are equal field by field, the dates as calendar dates
SameState(a, b) ==
    /\ \A k \in StateFields \ {"last_investment_date", "last_profit_taking_date"} :
          a[k] = b[k]
    /\ SameDate(a.last_investment_date, b.last_investment_date)
    /\ SameDate(a.last_profit_taking_date, b.last_profit_taking_date)

\* C4: from_dict of the output of to_dict gives back the state, field by
\* field, in both classes
C4_RoundTrip ==
    call.op = "reload" =>
        /\ call.error = "none"
        /\ variant = "single" => SameState(dfa, call.before)
        /\ variant = "multi" =>
              /\ strategy.symbols = call.before.symbols
              /\ DOMAIN strategy.symbol_states = DOMAIN call.before.symbol_states
              /\ \A s \in DOMAIN strategy.symbol_states :
                    SameState(strategy.symbol_states[s], call.before.symbol_states[s])

\* a reload of a state with a buy and a sell in it, and of one with none
C4_Witness ==
    /\ call.op = "reload"
    /\ \E st \in States : st.investment_history # <<>> /\ st.profit_history # <<>>
                          /\ st.last_profit_taking_date # None
    /\ variant = "multi" => \E st \in States : st = EmptyState

\* the last step loaded stored data
Loaded == call.op = "from_dict"

\* the symbols the stored data names: its list and the keys of its states
StoredNames(data) ==
    Range(Get(data, "symbols", <<>>)) \cup DOMAIN Get(data, "symbol_states", <<>>)

\* C5: on reload a symbol of the stored data that is not in the configured
\* list (SYMBOLS) is ignored: not in the tracked list, no state
C5_StoredOnlyIgnored ==
    (Loaded /\ variant = "multi") =>
        \A s \in StoredNames(file.data) \ Range(env.SYMBOLS) :
            s \notin Range(strategy.symbols) /\ s \notin DOMAIN strategy.symbol_states

\* C6: on reload every symbol of the configured list (SYMBOLS) that the
\* stored data lacks is tracked and has a fresh empty state
C6_ConfiguredOnlyFresh ==
    (Loaded /\ variant = "multi") =>
        \A s \in Range(env.SYMBOLS) \ StoredNames(file.data) :
            /\ s \in Range(strategy.symbols)
            /\ s \in DOMAIN strategy.symbol_states
            /\ strategy.symbol_states[s] = EmptyState

\* the stored state a load reads for the single instance, or for ETH/USDT
LoadedRaw ==
    IF variant = "single" THEN file.data
    ELSE Get(Get(file.data, "symbol_states", <<>>), "ETH/USDT", <<>>)

\* the state a load produced from LoadedRaw
LoadedState ==
    IF variant = "single" THEN dfa
    ELSE Get(strategy.symbol_states, "ETH/USDT", EmptyState)

\* C7: a malformed or absent stored date string, or a missing field, never
\* fails the load: the date becomes None, the field its zero / empty default
C7_MalformedNeverFails ==
    (Loaded /\ StoredDate(LoadedRaw, "last_investment_date") \in BadDateStrings
            /\ StoredDate(LoadedRaw, "last_profit_taking_date") \in BadDateStrings) =>
        /\ call.error = "none"
        /\ LoadedState.last_investment_date = None
        /\ LoadedState.last_profit_taking_date = None
        /\ \A k \in {"investment_count", "total_invested", "total_sell_amount",
                     "investment_history", "profit_history"} \ DOMAIN LoadedRaw :
              LoadedState[k] = EmptyState[k]
        /\ "total_shares" \notin DOMAIN LoadedRaw => LoadedState.total_shares = Zero

\* the orders the exchange accepted
Submitted == {i \in DOMAIN orders : orders[i].status = "ok"}

\* C8: within run_strategy_check the state is saved exactly once, after the
\* loop body of every symbol has run, never between two symbols
C8_SaveOnlyAfterFullTick ==
    variant = "live" =>
        /\ tick.saves \in {0, 1}
        /\ tick.running => tick.saves = 0
        /\ pc \in {"eval", "save", "raised"} => tick.running
        /\ tick.saves = 1 => idx = Len(strategy.symbols) + 1 /\ pc = "idle"
        /\ (pc = "idle" /\ in_loop) => tick.saves = 1

\* a tick over two symbols has ended and saved, one of its symbols bought
C8_Witness ==
    /\ variant = "live" /\ pc = "idle" /\ tick.saves = 1
    /\ Len(strategy.symbols) = 2
    /\ file.exists
    /\ \E s \in DOMAIN file.data.symbol_states :
          file.data.symbol_states[s].investment_count > 0

\* C9: no buy and no sell order is submitted twice for the same symbol and
\* date, whatever the point of a tick at which the process was killed and
\* started again
C9_NoDuplicateOrder ==
    \A i, j \in Submitted :
        (i < j /\ orders[i].symbol = orders[j].symbol /\ orders[i].day = orders[j].day)
            => orders[i].side # orders[j].side

\* C10: with a moving average of 0 the deviation a tick computes for the
\* symbol is 0, in run_strategy_check as in calculate_deviation
C10_ZeroAverageZeroDeviation ==
    (variant = "live" /\ tick.running) =>
        \A s \in DOMAIN tick.ma120_values :
            tick.ma120_values[s] = Zero =>
                /\ tick.deviation[s] = Finite(Zero)
                /\ calculate_deviation(tick.current_prices[s], tick.ma120_values[s]) = Zero

\* the last step called execute_investment or execute_profit_taking
Evaluated == call.op \in {"execute_investment", "execute_profit_taking"}

\* C11: for every state, every price >= 0 and every moving average >= 0,
\* execute_investment and execute_profit_taking return a skip, a buy or a
\* sell and raise nothing
C11_OutcomesAreActions ==
    Evaluated => call.ret.action \in {"skip", "buy", "sell"}

\* C14: execute_investment changes the state only when it returns buy: a
\* skip leaves every field as it was, and no buy record has a deviation
\* above 25 or a multiplier of 0
C14_InvestSkipLeavesState ==
    /\ (call.op = "execute_investment" /\ call.ret.action = "skip") =>
          After = call.before
    /\ \A st \in States : \A i \in DOMAIN st.investment_history :
          /\ RLeq(st.investment_history[i].deviation, R(25))
          /\ st.investment_history[i].multiplier # Zero

\* execute_investment skipped on a state that holds a position, the rounded
\* size being 0
C14_Witness ==
    /\ call.op = "execute_investment" /\ call.ret.action = "skip"
    /\ call.ret.reason = "size"
    /\ call.before.investment_count > 0

\* C12: every tracked symbol has a base cash amount and a state, so the
\* investment evaluation of a tracked symbol in a tick returns an action
C12_TrackedSymbolsEvaluate ==
    (variant = "live" /\ call.op = "evaluate") =>
        /\ call.symbol \in DOMAIN strategy.base_cash
        /\ call.symbol \in DOMAIN strategy.symbol_states
        /\ call.profit.action # "raise"
        /\ call.invest.action # "raise"

\* the multiplier table: low holds the three values at and below 0
TableValue(d, low) ==
    IF RLeq(d, R(-20)) THEN low[1]
    ELSE IF RLess(R(-20), d) /\ RLeq(d, R(-10)) THEN low[2]
    ELSE IF RLess(R(-10), d) /\ RLeq(d, R(0)) THEN low[3]
    ELSE IF RLess(R(0), d) /\ RLeq(d, R(5)) THEN R(1)
    ELSE IF RLess(R(5), d) /\ RLeq(d, R(15)) THEN Rat(1, 2)
    ELSE IF RLess(R(15), d) /\ RLeq(d, R(25)) THEN Rat(1, 5)
    ELSE Zero

\* C13: get_investment_multiplier returns the table value for every
\* deviation, every upper boundary inclusive, and is non-increasing
C13_MultiplierTable ==
    call.op = "get_investment_multiplier" =>
        /\ call.now.single = TableValue(call.now.d, <<Rat(11, 5), Rat(9, 5), Rat(7, 5)>>)
        /\ call.now.multi = TableValue(call.now.d, <<Rat(8, 5), Rat(7, 5), Rat(6, 5)>>)
        /\ RLeq(call.prev.d, call.now.d) =>
              /\ RLeq(call.now.single, call.prev.single)
              /\ RLeq(call.now.multi, call.prev.multi)

\* the multiplier at the boundary -20, after the one just above it
C13_Witness ==
    /\ call.op = "get_investment_multiplier"
    /\ call.now.d = R(-20) /\ call.now.single = Rat(11, 5) /\ call.now.multi = Rat(8, 5)
    /\ call.prev.d = Rat(-19999, 1000) /\ call.prev.single = Rat(9, 5)

\* C15: execute_profit_taking changes the state only when it sells: a skip
\* (no position, return below the target, inside the cooldown, rounded size
\* zero) leaves every field as it was, last_profit_taking_date and
\* profit_history included.
C15_ProfitSkipLeavesState ==
    (call.op = "execute_profit_taking" /\ call.ret.action = "skip") =>
        After = call.before

\* a skip inside the cooldown: the position doubled, a sale was made before
C15_Witness ==
    /\ call.op = "execute_profit_taking"
    /\ call.ret.action = "skip"
    /\ variant = "single"
    /\ call.before.profit_history # <<>>
    /\ call.before.total_shares[1] > 0
    /\ call.before.last_profit_taking_date # call.before.last_investment_date

\* C16: execute_investment and execute_profit_taking for one symbol leave
\* the state of every other symbol unchanged, whatever the order of the
\* symbols and also on a strategy restored by from_dict.
C16_OtherSymbolsUntouched ==
    [][(variant = "multi" /\ call'.op \in {"execute_investment", "execute_profit_taking"})
          => \A s \in DOMAIN strategy.symbol_states \ {call'.symbol} :
                /\ s \in DOMAIN strategy'.symbol_states
                /\ strategy'.symbol_states[s] = strategy.symbol_states[s]]_vars

\* a purchase for one symbol while another symbol already holds a position
C16_Witness ==
    /\ variant = "multi"
    /\ Bought
    /\ \E s \in DOMAIN strategy.symbol_states \ {call.symbol} :
          strategy.symbol_states[s].investment_count > 0

\* C17: should_invest_today(d) is true exactly when the symbol has never
\* invested or d is at least investment_interval days after
\* last_investment_date; asked for the date of the last purchase it is false.
C17_InvestGate ==
    call.op = "should_invest_today" =>
        LET last == call.before.last_investment_date
        IN  /\ call.ret \in {"yes", "no"}
            /\ call.ret = "yes" <=>
                  (last = None \/ call.date[2] - last[2] >= call.interval)
            /\ (last # None /\ call.date[2] = last[2]) => call.ret = "no"

\* C18: execute_investment does not look at the investment interval: a call
\* that follows a purchase on the same date with the same symbol, price,
\* moving average and cash buys again, and the two calls raise
\* investment_count by 2.
C18_NoIntervalCheckInExecute ==
    [][(/\ Bought
        /\ ncalls' = ncalls + 1
        /\ today' = today
        /\ call'.op = "execute_investment"
        /\ call'.symbol = call.symbol
        /\ call'.price = call.price /\ call'.ma = call.ma /\ call'.cash = call.cash)
          => /\ call'.ret.action = "buy"
             /\ call'.before.last_investment_date # None
             /\ call'.before.last_investment_date[2] = today
             /\ After'.investment_count = call.before.investment_count + 2]_vars

\* the second of two purchases on one date
C18_Witness ==
    /\ Bought
    /\ call.before.last_investment_date # None
    /\ call.before.last_investment_date[2] = today
    /\ After.investment_count = call.before.investment_count + 1
    /\ \E i \in DOMAIN After.investment_history :
          /\ i + 1 \in DOMAIN After.investment_history
          /\ After.investment_history[i].date = After.investment_history[i + 1].date
          /\ After.investment_history[i].price = After.investment_history[i + 1].price
          /\ After.investment_history[i].ma120 = After.investment_history[i + 1].ma120

\* the configuration the last call ran under
Config == IF variant = "single" THEN dfa ELSE strategy

\* C19: a sell happens only when the current return is at least
\* target_return and there is no earlier profit-taking or it lies at least
\* profit_taking_cooldown days back; hence two consecutive sells of one
\* symbol are at least profit_taking_cooldown days apart.
C19_ProfitGateAndCooldown ==
    /\ Sold =>
          /\ RLeq(Config.target_return, call.ret.current_return)
          /\ \/ call.before.last_profit_taking_date = None
             \/ today - call.before.last_profit_taking_date[2] >= Config.profit_taking_cooldown
    /\ \A st \in States : \A i \in DOMAIN st.profit_history :
          i + 1 \in DOMAIN st.profit_history =>
              st.profit_history[i + 1].date[2] - st.profit_history[i].date[2]
                  >= Config.profit_taking_cooldown

\* a second sell, one cooldown after the first
C19_Witness ==
    /\ Sold
    /\ call.before.last_profit_taking_date # None
    /\ Len(After.profit_history) = 2
    /\ After.profit_history[2].date[2] - After.profit_history[1].date[2] = 30

\* C20: a sell takes sell_shares = round(total_shares * sell_ratio, 4),
\* amount = sell_shares * price, cost_of_sold = (sell_shares / total_shares)
\* * total_invested and profit = amount - cost_of_sold, subtracts the shares
\* and the cost from the totals, adds the amount to total_sell_amount, sets
\* last_profit_taking_date and appends one record; 10 shares bought for 500
\* and sold at 90 with ratio 0.5 give size 5, amount 450, cost 250, profit
\* 200 and leave 5 shares, 250 invested, 450 sold.
C20_SellComputation ==
    Sold =>
        LET b == call.before
            q == RMul(b.total_shares, Config.sell_ratio)
            size == call.ret.size
            amount == RMul(size, call.price)
            cost == RMul(RDiv(size, b.total_shares), b.total_invested)
            profit == RSub(amount, cost)
        IN  /\ size \in {Round4(q, up) : up \in Ties(q)}
            /\ call.ret.amount = amount
            /\ call.ret.profit = profit
            /\ After.total_shares = RSub(b.total_shares, size)
            /\ After.total_invested = RSub(b.total_invested, cost)
            /\ After.total_sell_amount = RAdd(b.total_sell_amount, amount)
            /\ After.last_profit_taking_date = Date(today)
            /\ After.investment_count = b.investment_count
            /\ After.investment_history = b.investment_history
            /\ Len(After.profit_history) = Len(b.profit_history) + 1
            /\ SubSeq(After.profit_history, 1, Len(b.profit_history)) = b.profit_history
            /\ LET rec == After.profit_history[Len(After.profit_history)]
               IN  /\ rec.shares_sold = size /\ rec.amount_received = amount
                   /\ rec.cost_of_sold = cost /\ rec.profit = profit
                   /\ rec.price = call.price
            /\ (/\ b.total_shares = R(10) /\ b.total_invested = R(500)
                /\ b.total_sell_amount = Zero
                /\ call.price = R(90) /\ Config.sell_ratio = Rat(1, 2)) =>
                    /\ size = R(5) /\ amount = R(450) /\ cost = R(250)
                    /\ profit = R(200)
                    /\ call.ret.current_return = R(80)
                    /\ After.total_shares = R(5)
                    /\ After.total_invested = R(250)
                    /\ After.total_sell_amount = R(450)

\* the sale of the example: half of 10 shares bought for 500, at 90
C20_Witness ==
    /\ Sold
    /\ call.before.total_shares = R(10) /\ call.before.total_invested = R(500)
    /\ call.price = R(90)
    /\ call.ret.size = R(5)
    /\ After.total_sell_amount = R(450)

\* the amount the last execute_investment asked for: base cash times the
\* multiplier it returned, limited by the cap and the cash it was given
AskedAmount ==
    LET base == IF variant = "single" THEN dfa.base_cash
                ELSE strategy.base_cash[call.symbol]
        amount == RMul(base, call.ret.multiplier)
        capped == IF call.cap[1] = "some" /\ RLess(call.cap[2], amount)
                  THEN call.cap[2] ELSE amount
    IN  IF call.cash[1] = "some" /\ RLess(call.cash[2], capped)
        THEN call.cash[2] ELSE capped

\* C21: a buy takes size = round(investment_amount / price, 4) and
\* actual_invested = size * price, adds them to total_shares and
\* total_invested, raises investment_count by one, sets
\* last_investment_date and appends exactly one investment record; the
\* single-asset class at price 100, MA 125, base cash 70 has deviation -20,
\* multiplier 2.2, size 1.54 and invests 154.
C21_BuyComputation ==
    Bought =>
        LET b == call.before
            q == RDiv(AskedAmount, call.price)
            size == call.ret.size
            actual_invested == RMul(size, call.price)
        IN  /\ size \in {Round4(q, up) : up \in Ties(q)}
            /\ call.ret.amount = actual_invested
            /\ After.total_invested = RAdd(b.total_invested, actual_invested)
            /\ After.total_shares = RAdd(b.total_shares, size)
            /\ After.investment_count = b.investment_count + 1
            /\ After.last_investment_date = Date(today)
            /\ After.total_sell_amount = b.total_sell_amount
            /\ After.last_profit_taking_date = b.last_profit_taking_date
            /\ After.profit_history = b.profit_history
            /\ Len(After.investment_history) = Len(b.investment_history) + 1
            /\ SubSeq(After.investment_history, 1, Len(b.investment_history))
                  = b.investment_history
            /\ LET rec == After.investment_history[Len(After.investment_history)]
               IN  /\ rec.shares = size /\ rec.amount = actual_invested
                   /\ rec.price = call.price /\ rec.ma120 = call.ma
                   /\ rec.deviation = call.ret.deviation
                   /\ rec.multiplier = call.ret.multiplier
            /\ (/\ variant = "single" /\ call.price = R(100) /\ call.ma = R(125)
                /\ call.cash = NoCash) =>
                    /\ call.ret.deviation = R(-20)
                    /\ call.ret.multiplier = Rat(11, 5)
                    /\ size = Rat(77, 50)
                    /\ actual_invested = R(154)

\* a purchase whose rounded size makes it invest more than it asked for,
\* on a state that holds the purchase of the example
C21_Witness ==
    /\ Bought /\ variant = "single"
    /\ RLess(AskedAmount, call.ret.amount)
    /\ \E i \in DOMAIN call.before.investment_history :
          /\ call.before.investment_history[i].shares = Rat(77, 50)
          /\ call.before.investment_history[i].amount = R(154)
          /\ call.before.investment_history[i].deviation = R(-20)

\* the names under which states are kept, and the state kept under a name
Keys == IF variant = "single" THEN {""} ELSE DOMAIN strategy.symbol_states
StateAt(s) == IF variant = "single" THEN [k \in StateFields |-> dfa[k]]
              ELSE strategy.symbol_states[s]

IsPrefix(a, b) == Len(a) <= Len(b) /\ SubSeq(b, 1, Len(a)) = a

\* what a step may do to the states kept
GrowStep ==
    /\ \A s \in Keys :
          /\ s \in Keys'
          /\ StateAt(s)'.investment_count >= StateAt(s).investment_count
          /\ RLeq(StateAt(s).total_sell_amount, StateAt(s)'.total_sell_amount)
          /\ IsPrefix(StateAt(s).investment_history, StateAt(s)'.investment_history)
          /\ IsPrefix(StateAt(s).profit_history, StateAt(s)'.profit_history)
          /\ Len(StateAt(s)'.investment_history) + Len(StateAt(s)'.profit_history)
                <= Len(StateAt(s).investment_history) + Len(StateAt(s).profit_history) + 1
    /\ \A s, t \in Keys :
          (s # t /\ StateAt(s)' # StateAt(s)) => StateAt(t)' = StateAt(t)

\* C22: over any sequence of calls investment_count and total_sell_amount
\* never decrease and both histories are append-only: a step leaves every
\* earlier record in place and unchanged and adds at most one record.
C22_CountersAndHistoriesGrow == [][GrowStep]_vars

\* a sale recorded after an earlier sale and a purchase
C22_Witness ==
    /\ Sold /\ variant = "single"
    /\ call.before.profit_history # <<>>
    /\ Len(After.profit_history) = Len(call.before.profit_history) + 1
    /\ Len(After.investment_history) >= 1
    /\ RLess(call.before.total_sell_amount, After.total_sell_amount)

\* the symbol the second loop of run_strategy_check is at
Current == strategy.symbols[idx]

\* the fetch of the price or of the MA120 of symbol s failed in this tick
FetchFailed(s) == tick.quotes[s].price = NoCash \/ tick.quotes[s].ma = NoCash

\* a pass of the second loop, the process not being killed in it
LoopPass == variant = "live" /\ pc = "eval" /\ pc' # "down"

\* what a pass of the loop does in a tick in which a fetch failed
FailedFetchStep ==
    LoopPass =>
        /\ idx' = idx + 1
        /\ FetchFailed(Current) =>
              /\ call' = [op |-> "continue", symbol |-> Current]
              /\ strategy' = strategy
              /\ orders' = orders
              /\ pc' = IF idx < Len(strategy.symbols) THEN "eval" ELSE "save"
        /\ (~FetchFailed(Current) /\ \E s \in Range(strategy.symbols) : FetchFailed(s)) =>
              /\ call'.op = "evaluate" /\ call'.symbol = Current
              /\ call'.invest.action # "raise" =>
                    pc' = IF idx < Len(strategy.symbols) THEN "eval" ELSE "save"

\* what the end of the tick does
SaveStep ==
    (variant = "live" /\ pc = "save" /\ pc' # "down") =>
        /\ pc' = "idle" /\ tick'.saves = 1
        /\ file' \in {file, StateFile(MA_to_dict(strategy))}

\* C23: when the price or the MA120 of a symbol cannot be fetched in a
\* tick, the strategy is not called for it, its state stays as it was and
\* no order is placed for it, while the loop goes on to the other symbols,
\* evaluates those with data, and ends in save_strategy_state.
C23_FailedFetchSkipsSymbol == [][FailedFetchStep /\ SaveStep]_vars

\* the tick is at its save after the first symbol was skipped for a failed
\* fetch and the second, holding a position, was evaluated
C23_Witness ==
    /\ variant = "live" /\ pc = "save"
    /\ Len(strategy.symbols) = 2
    /\ FetchFailed(strategy.symbols[1])
    /\ call.op = "evaluate" /\ call.symbol = strategy.symbols[2]
    /\ strategy.symbol_states[strategy.symbols[1]].investment_count > 0

\* the last pass of the loop bought
TickBought == variant = "live" /\ call.op = "evaluate" /\ call.invest.action = "buy"

\* C24: through run_strategy_check, which asks should_invest_today before
\* execute_investment, two purchases of one symbol are at least
\* investment_interval days apart over any sequence of ticks with
\* non-decreasing dates, several ticks on one date included: at most one
\* purchase per symbol and date.
C24_TickBuysAnIntervalApart ==
    variant = "live" =>
        /\ strategy.investment_interval >= 1
        /\ TickBought =>
              /\ call.gate = "yes"
              /\ \/ call.before.last_investment_date = None
                 \/ today - call.before.last_investment_date[2] >= strategy.investment_interval
        /\ \A s \in DOMAIN strategy.symbol_states :
              LET h == strategy.symbol_states[s].investment_history
              IN  \A i \in DOMAIN h : \A j \in DOMAIN h :
                    i < j => h[j].date[2] - h[i].date[2] >= strategy.investment_interval

\* the second purchase of a symbol, one interval after its first
C24_Witness ==
    /\ TickBought
    /\ call.before.last_investment_date # None
    /\ Len(strategy.symbol_states[call.symbol].investment_history) = 2
    /\ nticks = 2

\* the orders a step placed
NewOrders == SubSeq(orders', Len(orders) + 1, Len(orders'))

\* what a pass of the loop that buys or sells leaves, whatever became of
\* the order
OrderStep ==
    (LoopPass /\ call'.op = "evaluate") =>
        LET b == strategy.symbol_states[Current]
            a == strategy'.symbol_states[Current]
        IN  /\ call'.invest.action = "buy" =>
                  /\ \E st \in {"ok", "failed"} :
                        NewOrders[Len(NewOrders)] =
                            Order("buy", Current, today, call'.invest.size, st)
                  /\ a.investment_count = b.investment_count + 1
                  /\ a.last_investment_date = tick.current_date
                  /\ Len(a.investment_history) = Len(b.investment_history) + 1
                  /\ a.investment_history[Len(a.investment_history)].shares = call'.invest.size
                  /\ RLess(b.total_invested, a.total_invested) \/ call'.profit.action = "sell"
            /\ call'.profit.action = "sell" =>
                  /\ \E st \in {"ok", "failed"} :
                        NewOrders[1] = Order("sell", Current, today, call'.profit.size, st)
                  /\ a.last_profit_taking_date = tick.current_date
                  /\ Len(a.profit_history) = Len(b.profit_history) + 1
                  /\ a.profit_history[Len(a.profit_history)].shares_sold = call'.profit.size
                  /\ a.total_sell_amount = RAdd(b.total_sell_amount, call'.profit.amount)
            /\ (call'.invest.action # "buy" /\ call'.profit.action # "sell") =>
                  NewOrders = <<>>

\* save_strategy_state writes the strategy as the loop left it
PersistStep ==
    (variant = "live" /\ pc = "save" /\ pc' = "idle") =>
        /\ strategy' = strategy
        /\ orders' = orders
        /\ file' # file => file' = StateFile(MA_to_dict(strategy))

\* C25: in a tick the state is changed before the order is placed and is
\* not taken back when the order fails: after execute_buy_order or
\* execute_sell_order returned None the state of the symbol still holds
\* the purchase or the sale, and that state is written at the end of the
\* tick, so the recorded holdings can differ from the executed orders.
C25_FailedOrderKeepsState == [][OrderStep /\ PersistStep]_vars

\* the saved state records a purchase, and no order went through
C25_Witness ==
    /\ variant = "live" /\ pc = "idle" /\ file.exists
    /\ orders # <<>> /\ Submitted = {}
    /\ file.data = MA_to_dict(strategy)
    /\ \E s \in DOMAIN file.data.symbol_states :
          /\ file.data.symbol_states[s].investment_count = 1
          /\ RLess(Zero, file.data.symbol_states[s].total_shares[1])

\* the sum of a sequence of numbers
RECURSIVE RSum(_)
RSum(seq) == IF seq = <<>> THEN Zero ELSE RAdd(RSum(SubSeq(seq, 1, Len(seq) - 1)), seq[Len(seq)])

NoBalance ==
    /\ variant = "live" /\ call.op = "evaluate"
    /\ call.gate = "yes" /\ call.cash = NoCash

\* C28: when get_account_balance returns None in a tick the investment is
\* still evaluated, with available_cash absent: the amount bought is base
\* cash times the multiplier, limited by MAX_SINGLE_ORDER only, not by the
\* cash the account holds.
C28_NoBalanceStillInvests ==
    NoBalance =>
        /\ call.invest.action \in {"buy", "skip", "raise"}
        /\ call.symbol \in DOMAIN strategy.base_cash =>
              LET price == tick.current_prices[call.symbol]
                  ma120 == tick.ma120_values[call.symbol]
                  multiplier == MA_get_investment_multiplier(calculate_deviation(price, ma120))
                  amount == RMul(strategy.base_cash[call.symbol], multiplier)
                  capped == IF RLess(env.MAX_SINGLE_ORDER, amount)
                            THEN env.MAX_SINGLE_ORDER ELSE amount
                  q == RDiv(capped, price)
              IN  IF RLess(Zero, capped) /\ \A up \in Ties(q) : RLess(Zero, Round4(q, up))
                  THEN /\ call.invest.action = "buy"
                       /\ call.invest.multiplier = multiplier
                       /\ call.invest.size \in {Round4(q, up) : up \in Ties(q)}
                       /\ call.invest.amount = RMul(call.invest.size, price)
                  ELSE call.invest.action = "skip"

\* a purchase without a balance, for more than the account would have had
C28_Witness ==
    /\ NoBalance
    /\ call.invest.action = "buy"
    /\ RLess(R(10), call.invest.amount)
    /\ ~env.DRY_RUN

====
